---- MODULE Spec2Model ----
(***************************************************************************)
(* Model of examples/cpp/rebind/rebind.cpp: the rebind_router class (its   *)
(* two packet handlers, owner resolution, configuration, start and stop)   *)
(* and the main() that drives it.                                          *)
(*                                                                         *)
(* Addresses are small integers (0 is the value-initialised address        *)
(* 0.0.0.0 / 00:00:00:00:00:00); strings are sequences of characters so    *)
(* that std::wstring::find is a real substring search.                     *)
(***************************************************************************)
EXTENDS Integers, Sequences, FiniteSets, TLC

VARIABLES
    main_pc,                  \* position of the caller driving the object
    app_name_,                \* rebind_router::app_name_
    default_adapter_handle_,  \* rebind_router::default_adapter_handle_
    rebind_adapter_handle_,   \* rebind_router::rebind_adapter_handle_
    rebind_src_hw_address_,   \* rebind_router::rebind_src_hw_address_
    default_src_hw_address_,  \* rebind_router::default_src_hw_address_
    rebind_gw_hw_address_,    \* rebind_router::rebind_gw_hw_address_
    rebind_src_ip_address_,   \* rebind_router::rebind_src_ip_address_
    default_src_ip_address_,  \* rebind_router::default_src_ip_address_
    file_stream_,             \* number of records appended to capture.pcap
    filter_active,            \* dual_packet_filter: is filtering on for index 0 / 1
    tcp_to_app_,              \* process_lookup snapshot: TCP session -> process
    udp_to_app_,              \* process_lookup snapshot: UDP endpoint -> process
    last_call,                \* the last call of the public interface and what it returned
    dir,                      \* which handler ran last: "none", "egress", "ingress"
    packet,                   \* the INTERMEDIATE_BUFFER as it was handed to that handler
    buffer,                   \* the same buffer when the handler returned
    action,                   \* the packet_action the handler returned ("fault": it did not return)
    calls,                    \* the process_lookup calls the handler made, in order
    written,                  \* the records the handler handed to file_stream_
    write_failed,             \* did file_stream_ fail to store what that call handed it
    writing                   \* is the capture thread of index 0 / 1 inside file_stream_ << buffer

binding == <<app_name_, default_adapter_handle_, rebind_adapter_handle_,
             rebind_src_hw_address_, default_src_hw_address_, rebind_gw_hw_address_,
             rebind_src_ip_address_, default_src_ip_address_>>

observed == <<dir, packet, buffer, action, calls, written, write_failed>>

vars == <<main_pc, binding, file_stream_, filter_active, tcp_to_app_, udp_to_app_,
          last_call, observed, writing>>

----------------------------------------------------------------------------
(* Bounds of the model *)

\* connections an OS connection table holds at most
MaxConn == 1
\* records capture.pcap holds at most
MaxLog == 1

----------------------------------------------------------------------------
(* Program constants *)

ETH_P_IP == 2048
IPPROTO_TCP == 6
IPPROTO_UDP == 17
AF_INET == 2
IF_TYPE_PPP == 23
INVALID_HANDLE_VALUE == -1
\* sizeof(ether_header): ethernet_header + 1 is the IP header
ETH_HLEN == 14
\* sizeof(DWORD): ip_hl counts 32-bit words
DWORD_SIZE == 4

pass == "pass"
route == "route"
drop == "drop"

----------------------------------------------------------------------------
(* Strings *)

\* std::basic_string::find(sub) != npos
Contains(str, sub) ==
    \E i \in 0..(Len(str) - Len(sub)) : SubSeq(str, i + 1, i + Len(sub)) = sub

\* the application names a user may type
AppNames == {<< >>, <<"b">>}

\* the processes of the host (iphelper::network_process: only the name is read)
Processes == {[name |-> <<"a", "b">>], [name |-> <<"c">>]}

\* the empty std::shared_ptr<network_process>
nullptr == [name |-> <<"nullptr">>, null |-> TRUE]

----------------------------------------------------------------------------
(* Frames: the fields of INTERMEDIATE_BUFFER the handlers touch.  m_IBuffer *)
(* is a fixed array, so every field has some value whatever m_Length says.  *)

\* 16-bit one's-complement style checksum of a sequence of words
RECURSIVE SumWords(_)
SumWords(ws) == IF ws = << >> THEN 0 ELSE Head(ws) + SumWords(Tail(ws))

Checksum16(ws) == 65535 - (SumWords(ws) % 65536)

\* IP header checksum: over the IP header (addresses included)
IPChecksum(b) == Checksum16(<<b.ip_hl, b.ip_p, b.ip_src, b.ip_dst>>)

\* TCP/UDP checksum: over the pseudo-header (addresses, protocol) and the ports
TransportChecksum(b) ==
    Checksum16(<<b.ip_src, b.ip_dst, b.ip_p, b.th_sport, b.th_dport>>)

\* CNdisApi::Recalculate*Checksum: the field is recomputed over the buffer as it is
\* now; the UDP and TCP routines leave a buffer of another protocol alone
RecalculateIPChecksum(b) == [b EXCEPT !.ip_sum = IPChecksum(b)]
RecalculateUDPChecksum(b) ==
    IF b.ip_p = IPPROTO_UDP THEN [b EXCEPT !.th_sum = TransportChecksum(b)] ELSE b
RecalculateTCPChecksum(b) ==
    IF b.ip_p = IPPROTO_TCP THEN [b EXCEPT !.th_sum = TransportChecksum(b)] ELSE b

\* a frame as the stack or the wire produced it: its checksums are those of its content
MakeFrame(len, proto, hl, p, src, dst) ==
    LET raw == [m_Length |-> len, h_dest |-> 8, h_source |-> 7, h_proto |-> proto,
                ip_hl |-> hl, ip_p |-> p, ip_src |-> src, ip_dst |-> dst, ip_sum |-> 0,
                th_sport |-> 5000, th_dport |-> 80, th_sum |-> 0]
    IN  [raw EXCEPT !.ip_sum = IPChecksum(raw), !.th_sum = TransportChecksum(raw)]

\* (ip_src, ip_dst) of the frames delivered: 1 and 2 are host addresses, 9 a remote peer
AddressPairs == {<<1, 9>>, <<2, 9>>, <<9, 1>>, <<9, 2>>}

\* (m_Length, ip_hl): a whole frame, a header length beyond the buffer, a truncated frame
Shapes == {<<64, 5>>, <<64, 15>>, <<20, 5>>}

\* (ip_src, ip_dst) of the malformed frames: from the default address on egress,
\* to the rebind address on ingress, where a well-formed frame would be routed
MalformedPairs == {<<1, 9>>, <<9, 2>>}

\* the frames delivered: IPv4 with TCP, UDP or ICMP (1), and ARP (ethertype 2054)
\* whose bytes at the IP header's place read like a UDP header's; whole frames
\* between every pair of addresses, malformed ones between the pairs above
Frames ==
    {MakeFrame(64, ETH_P_IP, 5, p, a[1], a[2]) :
        p \in {IPPROTO_TCP, IPPROTO_UDP, 1}, a \in AddressPairs}
    \cup
    {MakeFrame(s[1], ETH_P_IP, s[2], p, a[1], a[2]) :
        s \in Shapes, p \in {IPPROTO_TCP, IPPROTO_UDP, 1}, a \in MalformedPairs}
    \cup
    {MakeFrame(64, 2054, 5, IPPROTO_UDP, a[1], a[2]) : a \in AddressPairs}
    \cup
    {MakeFrame(20, 2054, 5, IPPROTO_UDP, a[1], a[2]) : a \in MalformedPairs}

NoFrame == MakeFrame(0, 0, 0, 0, 0, 0)

----------------------------------------------------------------------------
(* The connection tables of iphelper::process_lookup *)

TcpKey(b) == <<b.ip_src, b.ip_dst, b.th_sport, b.th_dport>>
UdpKey(b) == <<b.ip_src, b.th_sport>>

\* connections of the host: local address 1 or 2, remote peer 9
TcpKeys == {<<1, 9, 5000, 80>>, <<2, 9, 5000, 80>>}
UdpKeys == {<<1, 5000>>, <<2, 5000>>}

TablesOver(keys) ==
    UNION {[K -> Processes] : K \in {S \in SUBSET keys : Cardinality(S) <= MaxConn}}

\* what the OS may report when a table is reloaded
TcpTables == TablesOver(TcpKeys)
UdpTables == TablesOver(UdpKeys)

EmptyTable == [k \in {} |-> nullptr]

\* lookup_process_for_tcp / lookup_process_for_udp: the snapshot's entry, or empty
lookup_process(table, key) == IF key \in DOMAIN table THEN table[key] ELSE nullptr

----------------------------------------------------------------------------
(* Owner resolution *)

LookupCall(isTcp, found) ==
    [op |-> "lookup", tcp |-> isTcp, udp |-> ~isTcp, hit |-> found]
ActualizeCall(doTcp, doUdp) ==
    [op |-> "actualize", tcp |-> doTcp, udp |-> doUdp, hit |-> FALSE]

\* process_lookup::actualize(tcp, udp): reload the chosen tables from the OS;
\* the set of snapshots the reload may produce
actualize(doTcp, doUdp, tcp, udp) ==
    {[tcp |-> t, udp |-> u] :
        t \in (IF doTcp THEN TcpTables ELSE {tcp}),
        u \in (IF doUdp THEN UdpTables ELSE {udp})}

\* resolve_process_for_tcp with actualize(true, true): a miss reloads both tables
resolve_process_for_tcp_refresh_both(b, tcp, udp) ==
    LET process == lookup_process(tcp, TcpKey(b))
    IN  IF process # nullptr
        THEN {[process |-> process, tcp |-> tcp, udp |-> udp,
               calls |-> <<LookupCall(TRUE, TRUE)>>]}
        ELSE {[process |-> lookup_process(s.tcp, TcpKey(b)), tcp |-> s.tcp, udp |-> s.udp,
               calls |-> <<LookupCall(TRUE, FALSE), ActualizeCall(TRUE, TRUE),
                           LookupCall(TRUE, lookup_process(s.tcp, TcpKey(b)) # nullptr)>>] :
                 s \in actualize(TRUE, TRUE, tcp, udp)}

\* resolve_process_for_tcp: every (process, snapshots, calls) the call may end with
resolve_process_for_tcp(b, tcp, udp) ==
    LET process == lookup_process(tcp, TcpKey(b))
    IN  IF process # nullptr
        THEN {[process |-> process, tcp |-> tcp, udp |-> udp,
               calls |-> <<LookupCall(TRUE, TRUE)>>]}
        ELSE {[process |-> lookup_process(s.tcp, TcpKey(b)), tcp |-> s.tcp, udp |-> s.udp,
               calls |-> <<LookupCall(TRUE, FALSE), ActualizeCall(TRUE, FALSE),
                           LookupCall(TRUE, lookup_process(s.tcp, TcpKey(b)) # nullptr)>>] :
                 s \in actualize(TRUE, FALSE, tcp, udp)}

\* resolve_process_for_udp returning the first lookup's result after the retry
resolve_process_for_udp_retry_lost(b, tcp, udp) ==
    LET process == lookup_process(udp, UdpKey(b))
    IN  IF process # nullptr
        THEN {[process |-> process, tcp |-> tcp, udp |-> udp,
               calls |-> <<LookupCall(FALSE, TRUE)>>]}
        ELSE {[process |-> process, tcp |-> s.tcp, udp |-> s.udp,
               calls |-> <<LookupCall(FALSE, FALSE), ActualizeCall(FALSE, TRUE),
                           LookupCall(FALSE, lookup_process(s.udp, UdpKey(b)) # nullptr)>>] :
                 s \in actualize(FALSE, TRUE, tcp, udp)}

\* resolve_process_for_udp: every (process, snapshots, calls) the call may end with
resolve_process_for_udp(b, tcp, udp) ==
    LET process == lookup_process(udp, UdpKey(b))
    IN  IF process # nullptr
        THEN {[process |-> process, tcp |-> tcp, udp |-> udp,
               calls |-> <<LookupCall(FALSE, TRUE)>>]}
        ELSE {[process |-> lookup_process(s.udp, UdpKey(b)), tcp |-> s.tcp, udp |-> s.udp,
               calls |-> <<LookupCall(FALSE, FALSE), ActualizeCall(FALSE, TRUE),
                           LookupCall(FALSE, lookup_process(s.udp, UdpKey(b)) # nullptr)>>] :
                 s \in actualize(FALSE, TRUE, tcp, udp)}

----------------------------------------------------------------------------
(* The packet handlers given to dual_packet_filter *)

\* what a handler call ends with
Outcome(act, b, tcp, udp, cs, recs) ==
    [action |-> act, buffer |-> b, tcp |-> tcp, udp |-> udp, calls |-> cs, written |-> recs]

\* the ethertype test left out
is_ipv4_any_ethertype(b) == TRUE

\* ntohs(ethernet_header->h_proto) == ETH_P_IP
is_ipv4(b) == b.h_proto = ETH_P_IP

\* egress: the source compared with the rebind address instead of the default one
egress_not_ours_wrong_address(b) == b.ip_src # rebind_src_ip_address_

\* egress: net::ip_address_v4(ip_header->ip_src) != default_src_ip_address_
egress_not_ours(b) == b.ip_src # default_src_ip_address_

\* ingress: the destination compared with the default address instead of the rebind one
ingress_not_ours_default_address(b) == b.ip_dst # default_src_ip_address_

\* ingress: net::ip_address_v4(ip_header->ip_dst) != rebind_src_ip_address_
ingress_not_ours(b) == b.ip_dst # rebind_src_ip_address_

\* egress: the gateway MAC is not written
egress_set_addresses_no_gateway(b) ==
    [b EXCEPT !.ip_src = rebind_src_ip_address_,
              !.h_source = rebind_src_hw_address_]

\* egress: new source IP and MAC, gateway MAC as destination
egress_set_addresses(b) ==
    [b EXCEPT !.ip_src = rebind_src_ip_address_,
              !.h_source = rebind_src_hw_address_,
              !.h_dest = rebind_gw_hw_address_]

\* egress UDP branch with the checksums recomputed before the addresses are written
egress_route_udp_checksums_first(b, r) ==
    LET out == egress_set_addresses(RecalculateIPChecksum(RecalculateUDPChecksum(b)))
    IN  Outcome(route, out, r.tcp, r.udp, r.calls, <<out>>)

\* egress UDP branch once the owner matched: rewrite, checksums, log, route
egress_route_udp(b, r) ==
    LET out == RecalculateIPChecksum(RecalculateUDPChecksum(egress_set_addresses(b)))
    IN  Outcome(route, out, r.tcp, r.udp, r.calls, <<out>>)

\* egress TCP branch with the frame logged before its checksums are recomputed
egress_route_tcp_logged_early(b, r) ==
    LET out == RecalculateIPChecksum(RecalculateTCPChecksum(egress_set_addresses(b)))
    IN  Outcome(route, out, r.tcp, r.udp, r.calls, <<egress_set_addresses(b)>>)

\* egress TCP branch once the owner matched: rewrite, checksums, log, route
egress_route_tcp(b, r) ==
    LET out == RecalculateIPChecksum(RecalculateTCPChecksum(egress_set_addresses(b)))
    IN  Outcome(route, out, r.tcp, r.udp, r.calls, <<out>>)

\* the owner test with its sense inverted: == npos
owner_test_inverted(r) ==
    IF r.process = nullptr
    THEN {"fault", "match", "nomatch"}
    ELSE IF Contains(r.process.name, app_name_) THEN {"nomatch"} ELSE {"match"}

\* the owner test guarded by !app_name_.empty()
owner_test_name_required(r) ==
    IF r.process = nullptr
    THEN {"fault", "match", "nomatch"}
    ELSE IF app_name_ # << >> /\ Contains(r.process.name, app_name_)
         THEN {"match"} ELSE {"nomatch"}

\* process->name.find(app_name_) != npos.  The pointer is dereferenced without a
\* null test: with an empty pointer the behaviour is undefined, and the call may
\* fault, or read a name that matches, or one that does not.
owner_test(r) ==
    IF r.process = nullptr
    THEN {"fault", "match", "nomatch"}
    ELSE IF Contains(r.process.name, app_name_) THEN {"match"} ELSE {"nomatch"}

\* egress UDP branch, lines 194-210, after the owner was looked up
egress_udp_branch(b, r) ==
    {IF t = "match" THEN egress_route_udp(b, r)
     ELSE Outcome(IF t = "fault" THEN "fault" ELSE pass, b, r.tcp, r.udp, r.calls, << >>) :
        t \in owner_test(r)}

\* egress TCP branch, lines 218-234, after the owner was looked up
egress_tcp_branch(b, r) ==
    {IF t = "match" THEN egress_route_tcp(b, r)
     ELSE Outcome(IF t = "fault" THEN "fault" ELSE pass, b, r.tcp, r.udp, r.calls, << >>) :
        t \in owner_test(r)}

\* the handler of the default adapter (index 0): every outcome of one call on b
default_adapter_filter(b, tcp, udp) ==
    IF is_ipv4(b)
    THEN IF egress_not_ours(b)
         THEN {Outcome(pass, b, tcp, udp, << >>, << >>)}
         ELSE IF b.ip_p = IPPROTO_UDP
         THEN UNION {egress_udp_branch(b, r) : r \in resolve_process_for_udp(b, tcp, udp)}
         ELSE IF b.ip_p = IPPROTO_TCP
         THEN UNION {egress_tcp_branch(b, r) : r \in resolve_process_for_tcp(b, tcp, udp)}
         ELSE {Outcome(pass, b, tcp, udp, << >>, << >>)}
    ELSE {Outcome(pass, b, tcp, udp, << >>, << >>)}

\* ingress: the protocol test left out
ingress_is_tcp_or_udp_any(b) == TRUE

\* ingress: ip_p == IPPROTO_UDP || ip_p == IPPROTO_TCP
ingress_is_tcp_or_udp(b) == b.ip_p = IPPROTO_UDP \/ b.ip_p = IPPROTO_TCP

\* ingress: the MAC is copied over h_source, as in the egress handler
ingress_set_addresses_source_mac(b) ==
    [b EXCEPT !.ip_dst = default_src_ip_address_,
              !.h_source = default_src_hw_address_]

\* ingress: new destination IP and MAC
ingress_set_addresses(b) ==
    [b EXCEPT !.ip_dst = default_src_ip_address_,
              !.h_dest = default_src_hw_address_]

\* ingress, lines 252-268: rewrite, the checksum of the protocol, the IP checksum
ingress_rewrite(b) ==
    LET moved == ingress_set_addresses(b)
        summed == IF moved.ip_p = IPPROTO_UDP THEN RecalculateUDPChecksum(moved)
                  ELSE IF moved.ip_p = IPPROTO_TCP THEN RecalculateTCPChecksum(moved)
                  ELSE moved
    IN  RecalculateIPChecksum(summed)

\* the handler of the rebind adapter (index 1): every outcome of one call on b
rebind_adapter_filter(b, tcp, udp) ==
    IF is_ipv4(b)
    THEN IF ingress_not_ours(b)
         THEN {Outcome(pass, b, tcp, udp, << >>, << >>)}
         ELSE IF ingress_is_tcp_or_udp(b)
         THEN {Outcome(route, ingress_rewrite(b), tcp, udp, << >>, <<ingress_rewrite(b)>>)}
         ELSE {Outcome(pass, b, tcp, udp, << >>, << >>)}
    ELSE {Outcome(pass, b, tcp, udp, << >>, << >>)}

\* pcap_file_storage::operator<<: does the write of these records fail?  A failed
\* write stores nothing and reports nothing to the caller
pcap_write_fails(recs) == IF recs = << >> THEN {FALSE} ELSE {FALSE, TRUE}

\* a handler call in which a failed write ends the call instead of being ignored
Handled_write_failure_thrown(which, b, o) ==
    /\ file_stream_ + Len(o.written) <= MaxLog
    /\ dir' = which
    /\ packet' = b
    /\ buffer' = o.buffer
    /\ calls' = o.calls
    /\ written' = o.written
    /\ \E failed \in pcap_write_fails(o.written) :
          /\ write_failed' = failed
          /\ file_stream_' = IF failed THEN file_stream_ ELSE file_stream_ + Len(o.written)
          /\ action' = IF failed THEN "fault" ELSE o.action
          /\ main_pc' = IF failed \/ o.action = "fault" THEN "crashed" ELSE main_pc
    /\ tcp_to_app_' = o.tcp
    /\ udp_to_app_' = o.udp
    /\ UNCHANGED <<binding, filter_active, last_call, writing>>

\* one call of a handler by the capture thread: the outcome o of handling b
Handled(which, b, o) ==
    /\ file_stream_ + Len(o.written) <= MaxLog
    /\ dir' = which
    /\ packet' = b
    /\ buffer' = o.buffer
    /\ action' = o.action
    /\ calls' = o.calls
    /\ written' = o.written
    /\ \E failed \in pcap_write_fails(o.written) :
          /\ write_failed' = failed
          /\ file_stream_' = IF failed THEN file_stream_ ELSE file_stream_ + Len(o.written)
    /\ tcp_to_app_' = o.tcp
    /\ udp_to_app_' = o.udp
    /\ main_pc' = IF o.action = "fault" THEN "crashed" ELSE main_pc
    /\ UNCHANGED <<binding, filter_active, last_call, writing>>

\* the capture thread of adapter 0 delivers a frame to the first handler
OnDefaultAdapterFrame ==
    /\ main_pc # "crashed"
    /\ filter_active[0]
    /\ \E b \in Frames :
         \E o \in default_adapter_filter(b, tcp_to_app_, udp_to_app_) :
            Handled("egress", b, o)

\* the capture thread of adapter 1 delivers a frame to the second handler
OnRebindAdapterFrame ==
    /\ main_pc # "crashed"
    /\ filter_active[1]
    /\ \E b \in Frames :
         \E o \in rebind_adapter_filter(b, tcp_to_app_, udp_to_app_) :
            Handled("ingress", b, o)

----------------------------------------------------------------------------
(* Adapters: what the driver lists (filter_->get_interface_list()) and what  *)
(* the IP helper reports (iphelper::network_adapter_info)                   *)

ndis_adapters == <<
    [internal_name |-> <<"/", "d">>, hw_address |-> 1, adapter |-> 101,
     wan_type |-> "ndis_wan_none", ras_links |-> {}],
    [internal_name |-> <<"/", "r">>, hw_address |-> 2, adapter |-> 102,
     wan_type |-> "ndis_wan_none", ras_links |-> {}],
    [internal_name |-> <<"/", "w">>, hw_address |-> 6, adapter |-> 103,
     wan_type |-> "ndis_wan_ip", ras_links |-> {5}],
    [internal_name |-> <<"/", "e">>, hw_address |-> 4, adapter |-> 104,
     wan_type |-> "ndis_wan_none", ras_links |-> {}],
    [internal_name |-> <<"/", "s">>, hw_address |-> 5, adapter |-> 105,
     wan_type |-> "ndis_wan_none", ras_links |-> {}] >>

Inet(a) == [ss_family |-> AF_INET, addr |-> a, hardware_address |-> 0]
\* an AF_INET6 (23) entry
Inet6 == [ss_family |-> 23, addr |-> 0, hardware_address |-> 0]
Gateway(mac) == [ss_family |-> AF_INET, addr |-> 9, hardware_address |-> mac]
Gateway6(mac) == [ss_family |-> 23, addr |-> 0, hardware_address |-> mac]

\* the best interface for 1.1.1.1 (IF_TYPE_ETHERNET_CSMACD is 6): address 1, gateway MAC 10
AdapterD == [adapter_name |-> <<"d">>, if_type |-> 6,
             unicast |-> <<Inet6, Inet(1)>>, gateways |-> <<Gateway(10)>>]
\* a second LAN adapter: two IPv4 addresses (2 is the last), gateway MAC 3
AdapterR == [adapter_name |-> <<"r">>, if_type |-> 6,
             unicast |-> <<Inet(7), Inet(2), Inet6>>, gateways |-> <<Gateway(12), Gateway(3)>>]
\* a PPP link, found through the RAS links of the NDISWAN adapter
AdapterP == [adapter_name |-> <<"p">>, if_type |-> IF_TYPE_PPP,
             unicast |-> <<Inet(5)>>, gateways |-> << >>]
\* an adapter the driver does not list
AdapterN == [adapter_name |-> <<"n">>, if_type |-> 6,
             unicast |-> <<Inet(8)>>, gateways |-> <<Gateway(13)>>]
\* an adapter with IPv6 addresses and gateway only
AdapterE == [adapter_name |-> <<"e">>, if_type |-> 6,
             unicast |-> <<Inet6>>, gateways |-> <<Gateway6(14)>>]
\* an adapter with the same IPv4 address as the best interface
AdapterS == [adapter_name |-> <<"s">>, if_type |-> 6,
             unicast |-> <<Inet(1)>>, gateways |-> <<Gateway(11)>>]

Adapters == {AdapterD, AdapterR, AdapterP, AdapterN, AdapterE, AdapterS}

\* network_adapter_info::has_address
has_address(info, ip) ==
    \E i \in 1..Len(info.unicast) :
        info.unicast[i].ss_family = AF_INET /\ info.unicast[i].addr = ip

\* std::find_if over the driver's list: the first index in the set, 0 for none
FirstIndex(matching) ==
    IF matching = {} THEN 0
    ELSE CHOOSE i \in matching : \A j \in matching : i <= j

\* get_ndis_interface_by_adapter_info: the index in the driver's list, 0 for nullopt
get_ndis_interface_by_adapter_info(info) ==
    IF info.if_type # IF_TYPE_PPP
    THEN FirstIndex({i \in 1..Len(ndis_adapters) :
            Contains(ndis_adapters[i].internal_name, info.adapter_name)})
    ELSE FirstIndex({i \in 1..Len(ndis_adapters) :
            \E ip \in ndis_adapters[i].ras_links : has_address(info, ip)})

\* for (auto& gw : list) if (gw.ss_family == AF_INET) field = gw.hardware_address;
RECURSIVE last_inet_hardware_address(_, _)
last_inet_hardware_address(list, field) ==
    IF list = << >> THEN field
    ELSE last_inet_hardware_address(Tail(list),
            IF Head(list).ss_family = AF_INET THEN Head(list).hardware_address ELSE field)

\* the loop leaving at the first AF_INET entry (a break after the assignment)
last_inet_address_first_kept(list, field) ==
    IF FirstIndex({i \in 1..Len(list) : list[i].ss_family = AF_INET}) = 0 THEN field
    ELSE list[FirstIndex({i \in 1..Len(list) : list[i].ss_family = AF_INET})].addr

\* for (auto& ip : list) if (ip.ss_family == AF_INET) field = ip's address;
RECURSIVE last_inet_address(_, _)
last_inet_address(list, field) ==
    IF list = << >> THEN field
    ELSE last_inet_address(Tail(list),
            IF Head(list).ss_family = AF_INET THEN Head(list).addr ELSE field)

Returned(name, value) == [op |-> name, ret |-> value]

\* a call of the configuration method, with the two adapters it was given
Configured(value, default_adapter, rebind_adapter) ==
    [op |-> "set_ndis_interfaces_by_adapter_info", ret |-> value,
     args |-> <<default_adapter, rebind_adapter>>]

adapter_fields == <<default_adapter_handle_, rebind_adapter_handle_,
                    rebind_src_hw_address_, default_src_hw_address_, rebind_gw_hw_address_,
                    rebind_src_ip_address_, default_src_ip_address_>>

----------------------------------------------------------------------------
(* The public interface of rebind_router *)

\* set_ndis_interfaces_by_adapter_info without the WAN test of lines 343-347
set_ndis_interfaces_by_adapter_info_wan_accepted(default_adapter, rebind_adapter) ==
    LET ndis_default == get_ndis_interface_by_adapter_info(default_adapter)
        ndis_rebind == get_ndis_interface_by_adapter_info(rebind_adapter)
    IN  IF ndis_default = 0
        THEN /\ last_call' = Configured(FALSE, default_adapter, rebind_adapter)
             /\ UNCHANGED <<adapter_fields, app_name_, filter_active>>
        ELSE IF ndis_rebind = 0
        THEN /\ last_call' = Configured(FALSE, default_adapter, rebind_adapter)
             /\ UNCHANGED <<adapter_fields, app_name_, filter_active>>
        ELSE /\ default_adapter_handle_' = ndis_adapters[ndis_default].adapter
             /\ rebind_adapter_handle_' = ndis_adapters[ndis_rebind].adapter
             /\ default_src_hw_address_' = ndis_adapters[ndis_default].hw_address
             /\ rebind_src_hw_address_' = ndis_adapters[ndis_rebind].hw_address
             /\ rebind_gw_hw_address_' =
                    last_inet_hardware_address(rebind_adapter.gateways, rebind_gw_hw_address_)
             /\ rebind_src_ip_address_' =
                    last_inet_address(rebind_adapter.unicast, rebind_src_ip_address_)
             /\ default_src_ip_address_' =
                    last_inet_address(default_adapter.unicast, default_src_ip_address_)
             /\ last_call' = Configured(TRUE, default_adapter, rebind_adapter)
             /\ UNCHANGED <<app_name_, filter_active>>

\* rebind_router::set_ndis_interfaces_by_adapter_info
set_ndis_interfaces_by_adapter_info(default_adapter, rebind_adapter) ==
    LET ndis_default == get_ndis_interface_by_adapter_info(default_adapter)
        ndis_rebind == get_ndis_interface_by_adapter_info(rebind_adapter)
    IN  IF ndis_default = 0
        THEN /\ last_call' = Configured(FALSE, default_adapter, rebind_adapter)
             /\ UNCHANGED <<adapter_fields, app_name_, filter_active>>
        ELSE IF ndis_rebind = 0
        THEN /\ last_call' = Configured(FALSE, default_adapter, rebind_adapter)
             /\ UNCHANGED <<adapter_fields, app_name_, filter_active>>
        ELSE IF ndis_adapters[ndis_rebind].wan_type # "ndis_wan_none"
        THEN /\ last_call' = Configured(FALSE, default_adapter, rebind_adapter)
             /\ UNCHANGED <<adapter_fields, app_name_, filter_active>>
        ELSE /\ default_adapter_handle_' = ndis_adapters[ndis_default].adapter
             /\ rebind_adapter_handle_' = ndis_adapters[ndis_rebind].adapter
             /\ default_src_hw_address_' = ndis_adapters[ndis_default].hw_address
             /\ rebind_src_hw_address_' = ndis_adapters[ndis_rebind].hw_address
             /\ rebind_gw_hw_address_' =
                    last_inet_hardware_address(rebind_adapter.gateways, rebind_gw_hw_address_)
             /\ rebind_src_ip_address_' =
                    last_inet_address(rebind_adapter.unicast, rebind_src_ip_address_)
             /\ default_src_ip_address_' =
                    last_inet_address(default_adapter.unicast, default_src_ip_address_)
             /\ last_call' = Configured(TRUE, default_adapter, rebind_adapter)
             /\ UNCHANGED <<app_name_, filter_active>>

\* rebind_router::set_application_name
set_application_name(name) ==
    /\ app_name_' = name
    /\ last_call' = Returned("set_application_name", TRUE)
    /\ UNCHANGED <<adapter_fields, filter_active>>

\* dual_packet_filter::start_filter(handle, idx): what it may return
start_filter(handle) == IF handle = INVALID_HANDLE_VALUE THEN {FALSE} ELSE {TRUE, FALSE}

\* start() that goes on to the rebind adapter when the default adapter failed
start_rebind_regardless ==
    \E ok0 \in start_filter(default_adapter_handle_) :
        \E ok1 \in start_filter(rebind_adapter_handle_) :
            /\ filter_active' = [i \in {0, 1} |->
                                    IF i = 0 THEN (ok0 \/ filter_active[0])
                                    ELSE (ok1 \/ filter_active[1])]
            /\ last_call' = Returned("start", ok0 /\ ok1)
            /\ UNCHANGED binding

\* rebind_router::start
start ==
    \E ok0 \in start_filter(default_adapter_handle_) :
        IF ~ok0
        THEN /\ last_call' = Returned("start", FALSE)
             /\ UNCHANGED <<binding, filter_active>>
        ELSE \E ok1 \in start_filter(rebind_adapter_handle_) :
                /\ filter_active' = [i \in {0, 1} |->
                                        IF i = 0 THEN TRUE ELSE (ok1 \/ filter_active[1])]
                /\ last_call' = Returned("start", ok1)
                /\ UNCHANGED binding

\* rebind_router::stop
stop ==
    /\ filter_active' = [i \in {0, 1} |-> FALSE]
    /\ last_call' = Returned("stop", TRUE)
    /\ UNCHANGED binding

----------------------------------------------------------------------------
(* The state after the constructor *)

Constructed ==
    /\ app_name_ = << >>
    /\ default_adapter_handle_ = INVALID_HANDLE_VALUE
    /\ rebind_adapter_handle_ = INVALID_HANDLE_VALUE
    /\ rebind_src_hw_address_ = 0
    /\ default_src_hw_address_ = 0
    /\ rebind_gw_hw_address_ = 0
    /\ rebind_src_ip_address_ = 0
    /\ default_src_ip_address_ = 0
    /\ file_stream_ = 0
    /\ filter_active = [i \in {0, 1} |-> FALSE]
    /\ tcp_to_app_ = EmptyTable
    /\ udp_to_app_ = EmptyTable
    /\ last_call = Returned("rebind_router", TRUE)
    /\ dir = "none"
    /\ packet = NoFrame
    /\ buffer = NoFrame
    /\ action = pass
    /\ calls = << >>
    /\ written = << >>
    /\ write_failed = FALSE
    /\ writing = [i \in {0, 1} |-> FALSE]

\* the handlers' side of the state
capture_state == <<file_stream_, tcp_to_app_, udp_to_app_, observed, writing>>

----------------------------------------------------------------------------
(* main() *)

\* get_routable_interfaces(1.1.1.1), AdapterD apart
routable_adapters == <<AdapterR, AdapterP, AdapterN, AdapterS>>

\* get_best_interface(1.1.1.1): the IP helper may name an adapter the driver does not list
best_interfaces == {AdapterD, AdapterN}

\* lines 469-477: is_driver_loaded()
MainDriverCheck ==
    /\ main_pc = "driver"
    /\ \E loaded \in BOOLEAN :
         /\ main_pc' = IF loaded THEN "name" ELSE "return"
         /\ last_call' = Returned("is_driver_loaded", loaded)
    /\ UNCHANGED <<binding, filter_active, capture_state>>

\* lines 516-521: the application name is read and set
MainSetApplicationName ==
    /\ main_pc = "name"
    /\ \E name \in AppNames : set_application_name(name)
    /\ main_pc' = "select"
    /\ UNCHANGED capture_state

\* lines 523-544: the interface is chosen and the router configured
MainSetInterfaces ==
    /\ main_pc = "select"
    /\ \E default_adapter \in best_interfaces :
         LET alternatives == SelectSeq(routable_adapters, LAMBDA a : a # default_adapter)
         IN  \E idx \in 1..(Len(alternatives) + 1) :
                IF idx > Len(alternatives)
                THEN /\ main_pc' = "return"
                     /\ UNCHANGED <<binding, filter_active, last_call>>
                ELSE /\ set_ndis_interfaces_by_adapter_info(default_adapter, alternatives[idx])
                     /\ main_pc' = IF last_call'.ret THEN "start" ELSE "return"
    /\ UNCHANGED capture_state

\* lines 548-551: start()
MainStart ==
    /\ main_pc = "start"
    /\ start
    /\ main_pc' = IF last_call'.ret THEN "running" ELSE "return"
    /\ UNCHANGED capture_state

\* lines 553-559: a key is pressed, main returns and ~rebind_router() calls stop()
MainKeyPressed ==
    /\ main_pc = "running"
    /\ stop
    /\ main_pc' = "done"
    /\ UNCHANGED capture_state

\* an early return of main: ~rebind_router() calls stop()
MainReturn ==
    /\ main_pc = "return"
    /\ stop
    /\ main_pc' = "done"
    /\ UNCHANGED capture_state

Init == main_pc = "driver" /\ Constructed

Next ==
    \/ MainDriverCheck
    \/ MainSetApplicationName
    \/ MainSetInterfaces
    \/ MainStart
    \/ MainKeyPressed
    \/ MainReturn
    \/ OnDefaultAdapterFrame
    \/ OnRebindAdapterFrame

\* the program: main() and the capture threads of the two adapters
Spec == Init /\ [][Next]_vars

----------------------------------------------------------------------------
(* Any client of the class: the public interface called in any order *)

ClientSetApplicationName ==
    /\ main_pc = "client"
    /\ \E name \in AppNames : set_application_name(name)
    /\ UNCHANGED <<main_pc, capture_state>>

ClientSetInterfaces ==
    /\ main_pc = "client"
    /\ \E d \in Adapters, r \in Adapters : set_ndis_interfaces_by_adapter_info(d, r)
    /\ UNCHANGED <<main_pc, capture_state>>

ClientStart ==
    /\ main_pc = "client"
    /\ start
    /\ UNCHANGED <<main_pc, capture_state>>

ClientStop ==
    /\ main_pc = "client"
    /\ stop
    /\ UNCHANGED <<main_pc, capture_state>>

InitApi == main_pc = "client" /\ Constructed

NextApi ==
    \/ ClientSetApplicationName
    \/ ClientSetInterfaces
    \/ ClientStart
    \/ ClientStop

\* the configuration interface of the class under any sequence of calls
SpecApi == InitApi /\ [][NextApi]_vars

----------------------------------------------------------------------------
(* The two capture threads of dual_packet_filter, step by step.  A handler     *)
(* works on the buffer it was given and on the binding, which nothing writes   *)
(* while filtering runs; what the two calls share and write is file_stream_.   *)
(* A call is entered, decides its verdict and rewrites its buffer; a call that *)
(* routes then enters file_stream_ << buffer and returns when the write ends.  *)

\* the frames delivered while the two threads are followed: whole frames
ConcFrames == {b \in Frames : b.m_Length = 64 /\ b.ip_hl = 5}

\* thread i enters a handler call on b that ends with outcome o: the verdict and
\* the buffer are those of the call; a routed frame is now being written
Entered(i, which, b, o) ==
    /\ main_pc # "crashed"
    /\ filter_active[i]
    /\ ~writing[i]
    /\ file_stream_ < MaxLog
    /\ dir' = which
    /\ packet' = b
    /\ buffer' = o.buffer
    /\ action' = o.action
    /\ calls' = o.calls
    /\ written' = o.written
    /\ writing' = [writing EXCEPT ![i] = (o.written # << >>)]
    /\ tcp_to_app_' = o.tcp
    /\ udp_to_app_' = o.udp
    /\ main_pc' = IF o.action = "fault" THEN "crashed" ELSE main_pc
    /\ UNCHANGED <<binding, filter_active, last_call, file_stream_, write_failed>>

\* thread i leaves file_stream_ << buffer.  No lock is taken around the write
\* (lines 207, 231, 266): a write that overlaps the other thread's is a data
\* race, after which the record may be stored or lost, as after a failed write
Written(i) ==
    /\ writing[i]
    /\ writing' = [writing EXCEPT ![i] = FALSE]
    /\ \E failed \in pcap_write_fails(<<buffer>>) :
          /\ write_failed' = failed
          /\ file_stream_' = IF failed THEN file_stream_ ELSE file_stream_ + 1
    /\ UNCHANGED <<main_pc, binding, filter_active, last_call, tcp_to_app_, udp_to_app_,
                   dir, packet, buffer, action, calls, written>>

ConcEgressCall ==
    \E b \in ConcFrames :
        \E o \in default_adapter_filter(b, tcp_to_app_, udp_to_app_) :
            Entered(0, "egress", b, o)

ConcIngressCall ==
    \E b \in ConcFrames :
        \E o \in rebind_adapter_filter(b, tcp_to_app_, udp_to_app_) :
            Entered(1, "ingress", b, o)

ConcWritten == \E i \in {0, 1} : Written(i)

\* main() has configured AdapterD and AdapterR and start() has returned true
InitConc ==
    /\ main_pc = "running"
    /\ app_name_ \in AppNames
    /\ default_adapter_handle_ = ndis_adapters[get_ndis_interface_by_adapter_info(AdapterD)].adapter
    /\ rebind_adapter_handle_ = ndis_adapters[get_ndis_interface_by_adapter_info(AdapterR)].adapter
    /\ default_src_hw_address_ = ndis_adapters[get_ndis_interface_by_adapter_info(AdapterD)].hw_address
    /\ rebind_src_hw_address_ = ndis_adapters[get_ndis_interface_by_adapter_info(AdapterR)].hw_address
    /\ rebind_gw_hw_address_ = last_inet_hardware_address(AdapterR.gateways, 0)
    /\ rebind_src_ip_address_ = last_inet_address(AdapterR.unicast, 0)
    /\ default_src_ip_address_ = last_inet_address(AdapterD.unicast, 0)
    /\ file_stream_ = 0
    /\ filter_active = [i \in {0, 1} |-> TRUE]
    /\ tcp_to_app_ = EmptyTable
    /\ udp_to_app_ = EmptyTable
    /\ last_call = Returned("start", TRUE)
    /\ dir = "none"
    /\ packet = NoFrame
    /\ buffer = NoFrame
    /\ action = pass
    /\ calls = << >>
    /\ written = << >>
    /\ write_failed = FALSE
    /\ writing = [i \in {0, 1} |-> FALSE]

NextConc ==
    \/ ConcEgressCall
    \/ ConcIngressCall
    \/ ConcWritten

\* filtering in progress: the two capture threads interleaved at the log write
SpecConc == InitConc /\ [][NextConc]_vars

----------------------------------------------------------------------------
(* Properties *)

\* the owner the resolution ended with for frame b: after the call the snapshot
\* is the one its last lookup read
Owner(b) ==
    IF b.ip_p = IPPROTO_TCP THEN lookup_process(tcp_to_app_, TcpKey(b))
    ELSE lookup_process(udp_to_app_, UdpKey(b))

IsTcpOrUdp(b) == b.ip_p = IPPROTO_TCP \/ b.ip_p = IPPROTO_UDP

\* an IPv4 frame whose IP header length puts the transport header past m_Length
\* (a buffer shorter than the two headers is one of these)
ParseFailure(b) == b.h_proto = ETH_P_IP /\ ETH_HLEN + DWORD_SIZE * b.ip_hl > b.m_Length

\* C1: a frame whose ethertype is not IPv4 gets pass from either handler, keeps
\* every byte and is not written to the log
C1_NonIPv4Passes ==
    (dir # "none" /\ packet.h_proto # ETH_P_IP)
        => (action = pass /\ buffer = packet /\ written = << >>)

\* an ARP frame whose bytes read as UDP from the default address, handled on egress
C1_Witness ==
    /\ dir = "egress"
    /\ packet.h_proto # ETH_P_IP
    /\ packet.ip_src = default_src_ip_address_
    /\ packet.ip_p = IPPROTO_UDP
    /\ action = pass

\* C2: an IPv4 frame from another source than the default address (egress), or to
\* another destination than the rebind address (ingress), gets pass, is unchanged,
\* and no lookup or refresh is made for it
C2_OtherAddressPasses ==
    /\ (dir = "egress" /\ packet.h_proto = ETH_P_IP /\ packet.ip_src # default_src_ip_address_)
          => (action = pass /\ buffer = packet /\ calls = << >>)
    /\ (dir = "ingress" /\ packet.h_proto = ETH_P_IP /\ packet.ip_dst # rebind_src_ip_address_)
          => (action = pass /\ buffer = packet /\ calls = << >>)

\* an egress TCP frame of the target application, sent from another address
C2_Witness ==
    /\ dir = "egress"
    /\ packet.h_proto = ETH_P_IP
    /\ packet.ip_p = IPPROTO_TCP
    /\ packet.ip_src # default_src_ip_address_
    /\ Owner(packet) # nullptr
    /\ Contains(Owner(packet).name, app_name_)
    /\ action = pass

\* C3: an egress TCP or UDP frame from the default address whose owner's name
\* contains the application name is routed with IP source = rebind address,
\* source MAC = rebind MAC and destination MAC = gateway MAC
C3_EgressRouted ==
    (/\ dir = "egress"
     /\ packet.h_proto = ETH_P_IP
     /\ IsTcpOrUdp(packet)
     /\ packet.ip_src = default_src_ip_address_
     /\ Owner(packet) # nullptr
     /\ Contains(Owner(packet).name, app_name_))
        => /\ action = route
           /\ buffer.ip_src = rebind_src_ip_address_
           /\ buffer.h_source = rebind_src_hw_address_
           /\ buffer.h_dest = rebind_gw_hw_address_

\* a frame of process "ab" routed for the application name "b": all three fields change
C3_Witness ==
    /\ dir = "egress"
    /\ action = route
    /\ app_name_ = <<"b">>
    /\ Owner(packet) = [name |-> <<"a", "b">>]
    /\ buffer.ip_src # packet.ip_src
    /\ buffer.h_source # packet.h_source
    /\ buffer.h_dest # packet.h_dest

C5_RouteOnlyTcpUdp ==
    dir # "none" =>
        /\ action = route => (packet.h_proto = ETH_P_IP /\ IsTcpOrUdp(packet))
        /\ (packet.h_proto = ETH_P_IP /\ ~IsTcpOrUdp(packet))
              => (action = pass /\ buffer = packet)

\* an ingress ICMP frame to the rebind address
C5_Witness ==
    /\ dir = "ingress"
    /\ packet.h_proto = ETH_P_IP
    /\ ~IsTcpOrUdp(packet)
    /\ packet.ip_dst = rebind_src_ip_address_
    /\ action = pass

\* C6: a frame that fails parsing gets drop from either handler and is not modified
C6_ParseFailureDropped ==
    (dir # "none" /\ ParseFailure(packet)) => (action = drop /\ buffer = packet)

\* C7: an egress frame whose owner is still unresolved after the refresh and the
\* retry gets pass, is unchanged, and the handler does not fail
C7_UnresolvedPasses ==
    (dir = "egress" /\ Len(calls) = 3 /\ ~calls[3].hit)
        => (action = pass /\ buffer = packet /\ main_pc # "crashed")

\* C8: owner resolution makes one lookup and, if it hit, nothing more; if it
\* missed, one refresh of the table of the frame's protocol alone, then one more
\* lookup: at most one refresh and two lookups for a frame
C8_OneRetry ==
    dir # "none" =>
        \/ calls = << >>
        \/ /\ Len(calls) = 1
           /\ calls[1] = LookupCall(packet.ip_p = IPPROTO_TCP, TRUE)
        \/ /\ Len(calls) = 3
           /\ calls[1] = LookupCall(packet.ip_p = IPPROTO_TCP, FALSE)
           /\ calls[2] = ActualizeCall(packet.ip_p = IPPROTO_TCP, packet.ip_p = IPPROTO_UDP)
           /\ calls[3].op = "lookup"
           /\ calls[3].tcp = (packet.ip_p = IPPROTO_TCP)

\* a TCP frame whose owner was found by the lookup after the refresh
C8_Witness ==
    /\ dir = "egress"
    /\ packet.ip_p = IPPROTO_TCP
    /\ Len(calls) = 3
    /\ calls[3].hit

\* C9: when the first lookup missed and the lookup after the refresh found owner
\* P, the verdict and the frame are those of a call whose first lookup finds P
\* (the call on the refreshed snapshot)
C9_RetryLikeImmediateHit ==
    (dir = "egress" /\ Len(calls) = 3 /\ calls[3].hit)
        => \A o \in default_adapter_filter(packet, tcp_to_app_, udp_to_app_) :
              /\ Len(o.calls) = 1
              /\ o.action = action
              /\ o.buffer = buffer

\* a UDP frame routed after a miss, a refresh and a hit
C9_Witness ==
    /\ dir = "egress"
    /\ packet.ip_p = IPPROTO_UDP
    /\ Len(calls) = 3
    /\ calls[3].hit
    /\ action = route

\* C10: while filtering is active (start() succeeded, stop() not yet called) no
\* call changes the binding
C10_BindingFrozenWhileActive ==
    [][(filter_active[0] /\ filter_active[1]) => binding' = binding]_vars

\* C11: a configuration whose default and rebind IPv4 addresses are equal is
\* rejected, so whenever filtering is active the two addresses differ
C11_AddressesDifferWhileActive ==
    (filter_active[0] \/ filter_active[1])
        => default_src_ip_address_ # rebind_src_ip_address_

\* the configuration call just made was given a rebind adapter of WAN type, or a
\* default or rebind adapter the driver's list does not hold
ConfigurationUnusable ==
    /\ last_call.op = "set_ndis_interfaces_by_adapter_info"
    /\ LET ndis_default == get_ndis_interface_by_adapter_info(last_call.args[1])
           ndis_rebind == get_ndis_interface_by_adapter_info(last_call.args[2])
       IN  \/ ndis_default = 0
           \/ ndis_rebind = 0
           \/ ndis_adapters[ndis_rebind].wan_type # "ndis_wan_none"

\* C12: with a WAN-type rebind adapter, or a default or rebind adapter that is not
\* in the driver's list, set_ndis_interfaces_by_adapter_info returns false and
\* from then on filtering is never started on either adapter
C12_UnusableAdapterNeverStarted ==
    [](ConfigurationUnusable
        => (~last_call.ret /\ [](~filter_active[0] /\ ~filter_active[1])))

\* the PPP link chosen as rebind adapter: found in the list, of WAN type, refused
C12_Witness ==
    /\ ConfigurationUnusable
    /\ last_call.args[2] = AdapterP
    /\ get_ndis_interface_by_adapter_info(AdapterP) # 0
    /\ main_pc = "return"

\* C13: a frame the egress handler has rewritten and routed, handed to the egress
\* handler again under the same binding, gets pass and is neither modified nor
\* logged a second time
C13_EgressNotReentrant ==
    (dir = "egress" /\ action = route)
        => \A o \in default_adapter_filter(buffer, tcp_to_app_, udp_to_app_) :
              /\ o.action = pass
              /\ o.buffer = buffer
              /\ o.written = << >>

\* the reply of the remote peer to a routed frame b: sent to b's source address,
\* from the gateway's MAC to the rebind adapter's MAC, same protocol, ports swapped
Reply(b) ==
    LET raw == [b EXCEPT !.ip_src = b.ip_dst, !.ip_dst = b.ip_src,
                         !.h_source = b.h_dest, !.h_dest = b.h_source,
                         !.th_sport = b.th_dport, !.th_dport = b.th_sport]
    IN  [raw EXCEPT !.ip_sum = IPChecksum(raw), !.th_sum = TransportChecksum(raw)]

\* C14: for a frame F the egress handler routed, the reply addressed to F's
\* rewritten source (the rebind address) is routed by the ingress handler and ends
\* with IP destination = F's original source (the default address) and
\* destination MAC = the default adapter's MAC
C14_IngressInvertsEgress ==
    (dir = "egress" /\ action = route)
        => \A o \in rebind_adapter_filter(Reply(buffer), tcp_to_app_, udp_to_app_) :
              /\ o.action = route
              /\ o.buffer.ip_dst = packet.ip_src
              /\ o.buffer.ip_dst = default_src_ip_address_
              /\ o.buffer.h_dest = default_src_hw_address_

\* a frame routed from address 1 to the rebind address 2, whose reply is sent to 2
C14_Witness ==
    /\ dir = "egress"
    /\ action = route
    /\ packet.ip_src # buffer.ip_src
    /\ Reply(buffer).ip_dst = rebind_src_ip_address_
    /\ Reply(buffer).h_dest # default_src_hw_address_
    /\ \E o \in rebind_adapter_filter(Reply(buffer), tcp_to_app_, udp_to_app_) :
          o.action = route /\ o.buffer.ip_dst = packet.ip_src

\* C15: on every route path the addresses are written first, then the transport
\* checksum of the frame's protocol, then the IP checksum: the checksums of the
\* frame that is forwarded are those of its rewritten content
C15_ChecksumsAfterAddresses ==
    (dir # "none" /\ action = route)
        => /\ dir = "egress" => buffer.ip_src = rebind_src_ip_address_
           /\ dir = "ingress" => buffer.ip_dst = default_src_ip_address_
           /\ buffer.th_sum = TransportChecksum(buffer)
           /\ buffer.ip_sum = IPChecksum(buffer)

\* an egress UDP frame routed with a new source address: both checksums changed
C15_Witness ==
    /\ dir = "egress"
    /\ action = route
    /\ packet.ip_p = IPPROTO_UDP
    /\ buffer.ip_src # packet.ip_src
    /\ buffer.th_sum # packet.th_sum
    /\ buffer.ip_sum # packet.ip_sum

\* the handler of direction d, called on frame b with the present snapshots
Handler(d, b) ==
    IF d = "egress" THEN default_adapter_filter(b, tcp_to_app_, udp_to_app_)
    ELSE rebind_adapter_filter(b, tcp_to_app_, udp_to_app_)

\* C16: a call that ends with route has handed the log sink exactly one record,
\* the frame as it is forwarded (addresses, MACs and checksums rewritten); a call
\* that ends otherwise has handed it nothing; so records handed over and route
\* verdicts grow together, and so does the log unless the sink's write fails
C16_OneRecordPerRoute ==
    [][(main_pc' = main_pc \/ main_pc' = "crashed")
        => /\ action' = route => written' = <<buffer'>>
           /\ action' = route => /\ buffer'.th_sum = TransportChecksum(buffer')
                                 /\ buffer'.ip_sum = IPChecksum(buffer')
                                 /\ buffer' # packet'
           /\ action' # route => written' = << >>
           /\ file_stream_' = file_stream_ + (IF write_failed' THEN 0 ELSE Len(written'))]_vars

\* an egress TCP frame routed and stored: one record handed over, one more in the log
C16_Witness ==
    /\ dir = "egress"
    /\ action = route
    /\ packet.ip_p = IPPROTO_TCP
    /\ written = <<buffer>>
    /\ buffer.ip_src # packet.ip_src
    /\ ~write_failed
    /\ file_stream_ >= 1

C18_LogWritesNeverOverlap ==
    ~(writing[0] /\ writing[1])

\* C19: an egress TCP or UDP frame from the default address whose resolved owner's
\* name does not contain the application name gets pass, keeps every byte and is
\* not logged
C19_OtherOwnerPasses ==
    (/\ dir = "egress"
     /\ packet.h_proto = ETH_P_IP
     /\ IsTcpOrUdp(packet)
     /\ packet.ip_src = default_src_ip_address_
     /\ Owner(packet) # nullptr
     /\ ~Contains(Owner(packet).name, app_name_))
        => /\ action = pass
           /\ buffer = packet
           /\ written = << >>

\* a frame of process "c" handled while the application name is "b"
C19_Witness ==
    /\ dir = "egress"
    /\ packet.h_proto = ETH_P_IP
    /\ IsTcpOrUdp(packet)
    /\ packet.ip_src = default_src_ip_address_
    /\ app_name_ = <<"b">>
    /\ Owner(packet) = [name |-> <<"c">>]
    /\ action = pass

\* C20: while the application name is empty, every egress TCP or UDP frame from
\* the default address whose owner is resolved is routed and rewritten, whichever
\* process owns it
C20_EmptyNameRoutesAll ==
    (/\ dir = "egress"
     /\ packet.h_proto = ETH_P_IP
     /\ IsTcpOrUdp(packet)
     /\ packet.ip_src = default_src_ip_address_
     /\ Owner(packet) # nullptr
     /\ app_name_ = << >>)
        => /\ action = route
           /\ buffer.ip_src = rebind_src_ip_address_
           /\ buffer.h_source = rebind_src_hw_address_
           /\ buffer.h_dest = rebind_gw_hw_address_
           /\ written = <<buffer>>

\* frames of both processes routed under the empty name (one of them observed
\* here: process "c", which the name "b" would not match)
C20_Witness ==
    /\ dir = "egress"
    /\ app_name_ = << >>
    /\ last_call.op = "start"
    /\ Owner(packet) = [name |-> <<"c">>]
    /\ action = route
    /\ buffer # packet

\* C21: start() returns true only with filtering on for the default adapter and
\* the rebind adapter, and from a stopped router exactly then; the rebind adapter
\* is started only by a call that also has the default adapter running and returns
\* true, so when the default adapter fails the rebind adapter is not started; when
\* the rebind adapter fails, start() returns false and the default adapter's
\* filter stays on; only stop() (called by the destructor too) turns a filter off
C21_StartBothInOrder ==
    [][/\ (last_call'.op = "start" /\ main_pc \in {"start", "client"})
            => /\ last_call'.ret => (filter_active'[0] /\ filter_active'[1])
               /\ (~filter_active[0] /\ ~filter_active[1])
                     => (last_call'.ret <=> (filter_active'[0] /\ filter_active'[1]))
               /\ (filter_active'[1] /\ ~filter_active[1])
                     => (last_call'.ret /\ filter_active'[0])
               /\ filter_active[0] => filter_active'[0]
               /\ filter_active[1] => filter_active'[1]
       /\ (\E i \in {0, 1} : filter_active[i] /\ ~filter_active'[i])
            => (last_call'.op = "stop" /\ ~filter_active'[0] /\ ~filter_active'[1])]_vars

\* start() has returned false with the default adapter's filter left on alone
C21_Witness ==
    /\ last_call = Returned("start", FALSE)
    /\ filter_active[0]
    /\ ~filter_active[1]
    /\ rebind_adapter_handle_ # INVALID_HANDLE_VALUE

\* the place of the last AF_INET entry of an address list, 0 when it has none
LastInet(list) ==
    LET inet == {i \in 1..Len(list) : list[i].ss_family = AF_INET}
    IN  IF inet = {} THEN 0 ELSE CHOOSE i \in inet : \A j \in inet : j <= i

\* C22: a call of set_ndis_interfaces_by_adapter_info that returns true leaves the
\* gateway MAC, the rebind IP and the default IP equal to the last AF_INET entry
\* of the rebind adapter's gateways, the rebind adapter's unicast addresses and
\* the default adapter's unicast addresses; a field whose list has no AF_INET
\* entry keeps the value it had before the call
C22_LastInetEntryOrKept ==
    [][(/\ main_pc = "client"
        /\ last_call'.op = "set_ndis_interfaces_by_adapter_info"
        /\ last_call'.ret)
        => LET default_adapter == last_call'.args[1]
               rebind_adapter == last_call'.args[2]
               gw == LastInet(rebind_adapter.gateways)
               rip == LastInet(rebind_adapter.unicast)
               dip == LastInet(default_adapter.unicast)
           IN  /\ rebind_gw_hw_address_' =
                     IF gw = 0 THEN rebind_gw_hw_address_
                     ELSE rebind_adapter.gateways[gw].hardware_address
               /\ rebind_src_ip_address_' =
                     IF rip = 0 THEN rebind_src_ip_address_
                     ELSE rebind_adapter.unicast[rip].addr
               /\ default_src_ip_address_' =
                     IF dip = 0 THEN default_src_ip_address_
                     ELSE default_adapter.unicast[dip].addr]_vars

\* filtering started on both adapters after the first configuration took an
\* adapter without IPv4 gateway or address as rebind adapter: gateway MAC and
\* rebind address still all-zero
C22_Witness ==
    /\ filter_active[0]
    /\ filter_active[1]
    /\ rebind_adapter_handle_ = ndis_adapters[get_ndis_interface_by_adapter_info(AdapterE)].adapter
    /\ rebind_gw_hw_address_ = 0
    /\ rebind_src_ip_address_ = 0
    /\ default_src_ip_address_ # 0

====
